---- MODULE Spec2Model ----
(***************************************************************************)
(* Model of replacer.py: normalize, load_mapping, translate and main.      *)
(* Text is modelled as sequences of one-character strings, so that the     *)
(* regular expressions, strip() and lower() of the source are computed     *)
(* character by character.                                                 *)
(***************************************************************************)
EXTENDS Integers, Sequences, FiniteSets, TLC

\* ------------------------------------------------------------------ bounds
MaxLen == 5      \* longest text handed to normalize in SpecNormalize
MaxRows == 3     \* most data rows of a spreadsheet in SpecLoad
MaxLines == 4    \* most lines of a translation file in SpecTranslate

\* --------------------------------------------------------- text primitives
\* Python's None, distinct from every text (no text has a long element).
None == <<"None">>

NL == "\n"
QT == "\""

\* str.strip() with no argument removes these (those the model uses).
Whitespace == {" ", "\t", "\n", "\r"}

\* the character class of the second re.sub of normalize
Punctuation == {"\"", "'", ",", ".", "?", "!", ":", ";", "(", ")"}

UpperChars == <<"A","B","C","D","E","F","G","H","I","J","K","L","M",
                "N","O","P","Q","R","S","T","U","V","W","X","Y","Z">>
LowerChars == <<"a","b","c","d","e","f","g","h","i","j","k","l","m",
                "n","o","p","q","r","s","t","u","v","w","x","y","z">>

\* str.lower() on one character
LowerChar(c) ==
  IF \E i \in 1..26 : UpperChars[i] = c
  THEN LowerChars[CHOOSE i \in 1..26 : UpperChars[i] = c]
  ELSE c

\* str.lower()
Lower(s) == [i \in 1..Len(s) |-> LowerChar(s[i])]

\* s[i..j] (1-based, inclusive), empty when i > j
Slice(s, i, j) == IF i > j THEN <<>> ELSE SubSeq(s, i, j)

\* str.strip(chars): drop leading and trailing characters that are in cs
StripChars(s, cs) ==
  IF \A i \in 1..Len(s) : s[i] \in cs
  THEN <<>>
  ELSE LET first == CHOOSE i \in 1..Len(s) :
                       s[i] \notin cs /\ \A k \in 1..(i-1) : s[k] \in cs
           last == CHOOSE i \in 1..Len(s) :
                       s[i] \notin cs /\ \A k \in (i+1)..Len(s) : s[k] \in cs
       IN Slice(s, first, last)

\* str.strip()
Strip(s) == StripChars(s, Whitespace)

\* str.startswith(p)
StartsWith(s, p) == Len(s) >= Len(p) /\ Slice(s, 1, Len(p)) = p

\* ------------------------------------------------------------- normalize
\* End of the match of <[^>]+> attempted at position i of s, 0 when there
\* is no match: s[i] is "<", then the longest run of non-">" characters,
\* which must not be empty, then ">".
TagEnd(s, i) ==
  IF s[i] # "<" THEN 0
  ELSE IF \E j \in (i+1)..Len(s) : s[j] = ">"
       THEN LET j == CHOOSE j \in (i+1)..Len(s) :
                        s[j] = ">" /\ \A k \in (i+1)..(j-1) : s[k] # ">"
            IN IF j >= i + 2 THEN j ELSE 0
       ELSE 0

RECURSIVE SubTagsFrom(_, _)
\* re.sub(r'<[^>]+>', '', s) scanning from position i, leftmost match first
SubTagsFrom(s, i) ==
  IF i > Len(s) THEN <<>>
  ELSE IF TagEnd(s, i) # 0 THEN SubTagsFrom(s, TagEnd(s, i) + 1)
       ELSE <<s[i]>> \o SubTagsFrom(s, i + 1)

\* text = re.sub(r'<[^>]+>', '', text)
StripTags(s) == SubTagsFrom(s, 1)

\* text = re.sub(r'[\"\',.?!:;()]|', '', text)
StripPunctuation(s) == SelectSeq(s, LAMBDA c : c \notin Punctuation)

\* normalize with the trimming done before the punctuation is removed
normalizeStripFirst(s) == Lower(StripPunctuation(Strip(StripTags(s))))

\* normalize(text)
normalize(s) == Lower(Strip(StripPunctuation(StripTags(s))))


\* ----------------------------------------------------------- load_mapping
\* column names that main passes to load_mapping
KeyCol == <<"k","e","y">>
SingularCol == <<"S","i","n","g","u","l","a","r">>
NameCol == <<"N","a","m","e">>

\* list.index(x), 1-based; 0 stands for the ValueError of an absent x
Index(row, x) ==
  IF \E i \in 1..Len(row) : row[i] = x
  THEN CHOOSE i \in 1..Len(row) : row[i] = x /\ \A k \in 1..(i-1) : row[k] # x
  ELSE 0

\* max of a non-empty set of numbers
Max(S) == CHOOSE m \in S : \A n \in S : n <= m

\* mapping[k] = v
Put(m, k, v) == [x \in DOMAIN m \cup {k} |-> IF x = k THEN v ELSE m[x]]

\* dict.get(k, default)
Get(m, k, default) == IF k \in DOMAIN m THEN m[k] ELSE default

\* the empty dict
EmptyMap == [x \in {} |-> <<>>]

\* field.strip('"')
StripQuotes(s) == StripChars(s, {QT})

RECURSIVE PutNames(_, _, _, _, _)
\* for val_idx in val_idxs: name = row[val_idx].strip('"');
\*   if name: mapping[normalize(name)] = item_id     (from position i on)
PutNames(m, row, val_idxs, i, item_id) ==
  IF i > Len(val_idxs) THEN m
  ELSE LET name == StripQuotes(row[val_idxs[i]])
       IN PutNames(IF name # <<>> THEN Put(m, normalize(name), item_id) ELSE m,
                   row, val_idxs, i + 1, item_id)

\* identifier-key branch that keeps the first value seen for a key
PutFirstValue(m, row, val_idxs, item_id) ==
  LET name == StripQuotes(row[val_idxs[1]])
  IN IF name # <<>> /\ item_id \notin DOMAIN m THEN Put(m, item_id, name) ELSE m

\* name = row[val_idxs[0]].strip('"'); if name: mapping[item_id] = name
PutValue(m, row, val_idxs, item_id) ==
  LET name == StripQuotes(row[val_idxs[1]])
  IN IF name # <<>> THEN Put(m, item_id, name) ELSE m

\* the body of "for row in reader" for one row
LoadRow(m, row, kidx, val_idxs, nk) ==
  IF Len(row) <= Max({kidx} \cup {val_idxs[i] : i \in 1..Len(val_idxs)}) - 1
  THEN m
  ELSE LET item_id == StripQuotes(row[kidx])
       IN IF item_id = <<>> THEN m
          ELSE IF nk THEN PutNames(m, row, val_idxs, 1, item_id)
               ELSE PutValue(m, row, val_idxs, item_id)

\* A spreadsheet is the sequence of rows csv.reader yields, or None when
\* the file cannot be opened.  The three next(reader) calls and the two
\* index lookups raise when the file, a header row or a column is missing.
HeaderRaises(f, key_col, val_cols) ==
  IF f = None THEN TRUE
  ELSE IF Len(f) < 3 THEN TRUE
  ELSE IF Index(f[1], key_col) = 0 THEN TRUE
  ELSE \E i \in 1..Len(val_cols) : Index(f[2], val_cols[i]) = 0

\* key_idx = cols.index(key_col)
KeyIdx(f, key_col) == Index(f[1], key_col)

\* val_idxs = [names.index(v) for v in val_cols]
ValIdxs(f, val_cols) == [i \in 1..Len(val_cols) |-> Index(f[2], val_cols[i])]

RECURSIVE LoadRows(_, _, _, _, _, _)
\* the whole "for row in reader" loop, from row r on
LoadRows(m, f, r, kidx, val_idxs, nk) ==
  IF r > Len(f) THEN m
  ELSE LoadRows(LoadRow(m, f[r], kidx, val_idxs, nk), f, r + 1,
                kidx, val_idxs, nk)

\* load_mapping(csv_path, key_col, val_cols, normalize_key) on a file that
\* does not raise
load_mapping(f, key_col, val_cols, nk) ==
  LoadRows(EmptyMap, f, 4, KeyIdx(f, key_col), ValIdxs(f, val_cols), nk)

\* ------------------------------------------------------ spreadsheet data
ColsRow == <<KeyCol, <<"0">>, <<"1">>>>
NamesRow == <<<<"#">>, SingularCol, NameCol>>
TypesRow == <<<<"i">>, <<"s">>, <<"s">>>>

\* header rows as the Item_<lang>.csv files have them
GoodHeader == <<ColsRow, NamesRow, TypesRow>>
\* the second row lacks the Name column
NoNameHeader == <<ColsRow, <<<<"#">>, SingularCol, <<"1">>>>, TypesRow>>
\* the first row lacks the key column
NoKeyHeader == <<<<<<"#">>, <<"0">>, <<"1">>>>, NamesRow, TypesRow>>
\* a file with two rows only
ShortHeader == <<ColsRow, NamesRow>>

Headers == {GoodHeader, NoNameHeader, NoKeyHeader, ShortHeader}

\* data rows: key, Singular, Name
DataRows ==
  { <<<<"1">>, <<"A",".">>, <<"T">>>>,
    <<<<"1">>, <<"A",".">>, <<"U">>>>,
    <<<<"1">>, <<"A",".">>, <<>>>>,               \* empty Name
    <<<<"1">>, <<"A",".">>, <<QT, QT>>>>,         \* Name of quotes only
    <<<<"1">>, <<"A",".">>>>,                     \* row without Name field
    <<<<>>, <<"A",".">>, <<"T">>>>,               \* empty key
    <<<<QT,"2",QT>>, <<".">>, <<QT,"V",QT>>>>,    \* quoted fields
    <<<<"2">>, <<"<","i",">","A">>, <<"b",NL,"c">>>> }  \* tag; line break

RECURSIVE RowSeqsUpTo(_)
RowSeqsUpTo(n) ==
  IF n = 0 THEN {<<>>}
  ELSE LET shorter == RowSeqsUpTo(n - 1)
       IN shorter \cup {Append(t, r) : t \in {u \in shorter : Len(u) = n - 1},
                                       r \in DataRows}

\* the two calls main makes
LoadCalls ==
  { [key_col |-> KeyCol, val_cols |-> <<SingularCol, NameCol>>, nk |-> TRUE],
    [key_col |-> KeyCol, val_cols |-> <<NameCol>>, nk |-> FALSE] }

\* --------------------------------------------------------------- translate
MsgidPrefix == <<"m","s","g","i","d"," ">>
\* the text 'msgstr ""' that a stripped line is compared with
Sentinel == <<"m","s","g","s","t","r"," ",QT,QT>>
MsgstrOpen == <<"m","s","g","s","t","r"," ",QT>>

\* Python truth value of msgid (None and '' are false)
Truthy(m) == m # None /\ m # <<>>

\* re.match(r'msgid\s+\"(.*)\"', line) on a line that starts with 'msgid ':
\* group(1), or None when there is no match.  \s+ takes the whole run of
\* whitespace after "msgid", a quote must follow, and (.*) runs to the last
\* quote that no line break separates from the first.
MatchMsgid(line) ==
  LET p == CHOOSE i \in 6..(Len(line) + 1) :
              /\ \A k \in 6..(i-1) : line[k] \in Whitespace
              /\ (i <= Len(line) => line[i] \notin Whitespace)
      Closing == {q \in (p+1)..Len(line) :
                    line[q] = QT /\ \A k \in (p+1)..(q-1) : line[k] # NL}
  IN IF p <= Len(line) /\ line[p] = QT /\ Closing # {}
     THEN Slice(line, p + 1, Max(Closing) - 1)
     ELSE None

\* line.startswith('msgid ')
IsMsgidLine(line) == StartsWith(line, MsgidPrefix)

\* a candidate test that compares the line without stripping it
IsCandidateExact(m, line) == Truthy(m) /\ line = Sentinel \o <<NL>>

\* msgid and line.strip() == 'msgstr ""'
IsCandidate(m, line) == Truthy(m) /\ Strip(line) = Sentinel

\* a lookup that falls back on the identifier when the target has no entry
ResolveTargetOrId(eng, ids, m) ==
  LET item_id == Get(eng, normalize(m), None)
  IN IF Truthy(item_id) THEN Get(ids, item_id, item_id) ELSE <<>>

\* item_id = eng_map.get(normalize(msgid))
\* tgt_name = id_map.get(item_id, '') if item_id else ''
ResolveTarget(eng, ids, m) ==
  LET item_id == Get(eng, normalize(m), None)
  IN IF Truthy(item_id) THEN Get(ids, item_id, <<>>) ELSE <<>>

\* f'msgstr "{tgt_name}"\n'
ReplacedLine(tgt_name) == MsgstrOpen \o tgt_name \o <<QT, NL>>

\* The state of the loop: the pending msgid, the counters, the missing
\* list and the strings written to fout, one per fout.write call.
TranslateStart ==
  [msgid |-> None, total |-> 0, replaced |-> 0, missing |-> <<>>, out |-> <<>>]

\* the branch of a 'msgid ' line
MsgidLine(st, line) ==
  [st EXCEPT !.msgid = MatchMsgid(line), !.out = Append(@, line)]

\* a candidate branch that leaves msgid pending
CandidateLineKeeps(st, line, eng, ids) ==
  LET tgt_name == ResolveTarget(eng, ids, st.msgid)
  IN IF tgt_name # <<>>
     THEN [st EXCEPT !.total = @ + 1, !.replaced = @ + 1,
                     !.out = Append(@, ReplacedLine(tgt_name))]
     ELSE [st EXCEPT !.total = @ + 1, !.missing = Append(@, st.msgid),
                     !.out = Append(@, line)]

\* a candidate branch that does not record the unresolved message
CandidateLineForgets(st, line, eng, ids) ==
  LET tgt_name == ResolveTarget(eng, ids, st.msgid)
  IN IF tgt_name # <<>>
     THEN [st EXCEPT !.total = @ + 1, !.replaced = @ + 1, !.msgid = None,
                     !.out = Append(@, ReplacedLine(tgt_name))]
     ELSE [st EXCEPT !.total = @ + 1, !.msgid = None,
                     !.out = Append(@, line)]

\* the branch of a candidate line
CandidateLine(st, line, eng, ids) ==
  LET tgt_name == ResolveTarget(eng, ids, st.msgid)
  IN IF tgt_name # <<>>
     THEN [st EXCEPT !.total = @ + 1, !.replaced = @ + 1, !.msgid = None,
                     !.out = Append(@, ReplacedLine(tgt_name))]
     ELSE [st EXCEPT !.total = @ + 1, !.missing = Append(@, st.msgid),
                     !.msgid = None, !.out = Append(@, line)]

\* a copy-through that also drops the pending msgid
OtherLineClears(st, line) ==
  [st EXCEPT !.out = Append(@, line), !.msgid = None]

\* the final fout.write(line) of the loop body; msgid is not assigned
OtherLine(st, line) == [st EXCEPT !.out = Append(@, line)]

\* the body of "for line in fin" for one line
TranslateLine(st, line, eng, ids) ==
  IF IsMsgidLine(line) THEN MsgidLine(st, line)
  ELSE IF IsCandidate(st.msgid, line) THEN CandidateLine(st, line, eng, ids)
       ELSE OtherLine(st, line)

RECURSIVE TranslateFrom(_, _, _, _, _)
\* the whole loop over the lines of fin, from line i on
TranslateFrom(st, lines, i, eng, ids) ==
  IF i > Len(lines) THEN st
  ELSE TranslateFrom(TranslateLine(st, lines[i], eng, ids), lines, i + 1,
                     eng, ids)

RECURSIVE Concat(_)
\* the content of a file: its writes (or its lines) one after the other
Concat(ss) == IF ss = <<>> THEN <<>> ELSE Head(ss) \o Concat(Tail(ss))

RECURSIVE SplitLines(_)
\* the lines of a text as reading the file yields them: each ends with its
\* line break, the last one possibly without
SplitLines(s) ==
  IF s = <<>> THEN <<>>
  ELSE IF \E i \in 1..Len(s) : s[i] = NL
       THEN LET i == CHOOSE i \in 1..Len(s) :
                        s[i] = NL /\ \A k \in 1..(i-1) : s[k] # NL
            IN <<Slice(s, 1, i)>> \o SplitLines(Slice(s, i + 1, Len(s)))
       ELSE <<s>>

\* ---------------------------------------------------- translation file data
LineMsgidA == MsgidPrefix \o <<QT,"A",".",QT,NL>>       \* msgid "A."
LineMsgidDot == MsgidPrefix \o <<QT,".",QT,NL>>         \* msgid "."
LineMsgidEmpty == MsgidPrefix \o <<QT,QT,NL>>           \* msgid ""
LineMsgidX == MsgidPrefix \o <<QT,"x",QT,NL>>           \* msgid "x"
LineMsgidBad == MsgidPrefix \o <<"x",NL>>               \* msgid x
LineSentinel == Sentinel \o <<NL>>                      \* msgstr ""
LineSentinelSp == <<" ">> \o Sentinel \o <<" ",NL>>     \* padded msgstr ""
LineSentinelEnd == Sentinel                             \* no line break
LineComment == <<"#"," ","c",NL>>                       \* # c

\* lines that end with a line break
FullLines ==
  { LineMsgidA, LineMsgidDot, LineMsgidEmpty, LineMsgidX, LineMsgidBad,
    LineSentinel, LineSentinelSp, LineComment }

\* a line without a line break, which only the end of a file can hold
EndLines == { LineSentinelEnd }

RECURSIVE FullFilesUpTo(_)
FullFilesUpTo(n) ==
  IF n = 0 THEN {<<>>}
  ELSE LET shorter == FullFilesUpTo(n - 1)
       IN shorter \cup {Append(t, l) : t \in {u \in shorter : Len(u) = n - 1},
                                       l \in FullLines}

\* the files of at most n lines
FilesUpTo(n) ==
  FullFilesUpTo(n) \cup
  {Append(t, l) : t \in {u \in FullFilesUpTo(n) : Len(u) < n}, l \in EndLines}

\* spreadsheets of the source language
SrcCsvs ==
  { GoodHeader \o << <<<<"1">>, <<"A",".">>, <<"A">>>>,
                     <<<<"2">>, <<".">>, <<".">>>> >>,
    GoodHeader \o << <<<<"1">>, <<"<","i",">","A">>, <<"A">>>> >> }

\* spreadsheets of the target language
TgtCsvs ==
  { GoodHeader \o << <<<<"1">>, <<"s">>, <<"T">>>>,
                     <<<<"2">>, <<"s">>, <<"U">>>> >>,
    GoodHeader \o << <<<<"2">>, <<"s">>, <<"b",NL,"c">>>> >>,
    GoodHeader \o << <<<<"1">>, <<"s">>, <<"T">>>>,
                     <<<<"2">>, <<"s">>, <<>>>> >> }

\* ------------------------------------------------------------------- state
VARIABLES
  text,          \* normalize: the argument
  once,          \* normalize(text), None before the call
  twice,         \* normalize(normalize(text)), None before the call
  csv,           \* load_mapping: the rows of the file, None if unreadable
  call,          \* load_mapping: key_col, val_cols, normalize_key
  reader,        \* load_mapping: index of the next row of the reader
  mapping,       \* load_mapping: the dict being built
  key_idx,       \* load_mapping: column of the key (1-based)
  val_idxs,      \* load_mapping: columns of the values (1-based)
  lpc,           \* load_mapping: "start", "rows", "returned", "raised"
  fin,           \* translate: the lines of the input file
  pos,           \* translate: index of the next line of fin
  msgid,         \* translate: the pending source message, or None
  total,         \* translate: candidates examined
  replaced,      \* translate: candidates replaced
  missing,       \* translate: source messages without a mapping
  written,       \* translate: the strings given to fout.write, in order
  eng_map,       \* normalized source text -> identifier
  id_map,        \* identifier -> target text
  tpc,           \* translate: "idle", "loop", "done"
  argv,          \* main: the command line and what parse_args makes of it
  fs,            \* main: the files on disk, path -> content (None: absent)
  pc,            \* main: "start", "paths", "load", "translate", "exited"
  en_csv,        \* main: path of the source spreadsheet
  tgt_csv,       \* main: path of the target spreadsheet
  out_po,        \* main: path of the output file
  opened,        \* main: the paths given to an open call so far
  exit_status,   \* main: status the process ended with, -1 while running
  uncaught       \* main: the process ended by an exception nobody caught

normVars == <<text, once, twice>>
loadVars == <<csv, call, reader, mapping, key_idx, val_idxs, lpc>>
transVars == <<fin, pos, msgid, total, replaced, missing, written,
               eng_map, id_map, tpc>>
mainVars == <<argv, fs, pc, en_csv, tgt_csv, out_po, opened, exit_status,
              uncaught>>
vars == <<normVars, loadVars, transVars, mainVars>>

\* values of the variables of a function that is not running
NormIdle == text = <<>> /\ once = None /\ twice = None
LoadIdle ==
  /\ csv = None /\ call = [key_col |-> KeyCol, val_cols |-> <<NameCol>>, nk |-> FALSE]
  /\ reader = 0 /\ mapping = EmptyMap /\ key_idx = 0 /\ val_idxs = <<>>
  /\ lpc = "idle"
TransIdle ==
  /\ fin = <<>> /\ pos = 0 /\ msgid = None /\ total = 0 /\ replaced = 0
  /\ missing = <<>> /\ written = <<>> /\ eng_map = EmptyMap
  /\ id_map = EmptyMap /\ tpc = "idle"
MainIdle ==
  /\ argv = [argc |-> 1, parsed |-> "none", src |-> <<>>, tgt |-> <<>>,
             po_in |-> None, po_out |-> None]
  /\ fs = EmptyMap /\ pc = "idle"
  /\ en_csv = None /\ tgt_csv = None /\ out_po = None /\ opened = {}
  /\ exit_status = -1 /\ uncaught = FALSE

\* ------------------------------------------------ SpecNormalize (normalize)
NormAlphabet == {"<", ">", "a", "A", ".", " "}

RECURSIVE TextsUpTo(_)
TextsUpTo(n) ==
  IF n = 0 THEN {<<>>}
  ELSE LET shorter == TextsUpTo(n - 1)
       IN shorter \cup {Append(t, c) : t \in {u \in shorter : Len(u) = n - 1},
                                       c \in NormAlphabet}

InitNormalize ==
  /\ text \in TextsUpTo(MaxLen)
  /\ once = None
  /\ twice = None
  /\ LoadIdle /\ TransIdle /\ MainIdle

NormalizeOnce ==
  /\ once = None
  /\ once' = normalize(text)
  /\ UNCHANGED <<text, twice, loadVars, transVars, mainVars>>

NormalizeTwice ==
  /\ once # None
  /\ twice = None
  /\ twice' = normalize(once)
  /\ UNCHANGED <<text, once, loadVars, transVars, mainVars>>

NextNormalize == NormalizeOnce \/ NormalizeTwice

SpecNormalize == InitNormalize /\ [][NextNormalize]_vars

\* ------------------------------------------------- SpecLoad (load_mapping)
InitLoad ==
  /\ csv \in {None} \cup {h \o rows : h \in Headers, rows \in RowSeqsUpTo(MaxRows)}
  /\ call \in LoadCalls
  /\ reader = 0 /\ mapping = EmptyMap /\ key_idx = 0 /\ val_idxs = <<>>
  /\ lpc = "start"
  /\ NormIdle /\ TransIdle /\ MainIdle

\* open, the three next(reader) and the index lookups raise
LoadRaise ==
  /\ lpc = "start"
  /\ HeaderRaises(csv, call.key_col, call.val_cols)
  /\ lpc' = "raised"
  /\ UNCHANGED <<csv, call, reader, mapping, key_idx, val_idxs>>
  /\ UNCHANGED <<normVars, transVars, mainVars>>

\* open, the three next(reader) and the index lookups succeed
LoadHeader ==
  /\ lpc = "start"
  /\ ~HeaderRaises(csv, call.key_col, call.val_cols)
  /\ key_idx' = KeyIdx(csv, call.key_col)
  /\ val_idxs' = ValIdxs(csv, call.val_cols)
  /\ reader' = 4
  /\ lpc' = "rows"
  /\ UNCHANGED <<csv, call, mapping>>
  /\ UNCHANGED <<normVars, transVars, mainVars>>

\* one iteration of "for row in reader"
LoadNextRow ==
  /\ lpc = "rows"
  /\ reader <= Len(csv)
  /\ mapping' = LoadRow(mapping, csv[reader], key_idx, val_idxs, call.nk)
  /\ reader' = reader + 1
  /\ UNCHANGED <<csv, call, key_idx, val_idxs, lpc>>
  /\ UNCHANGED <<normVars, transVars, mainVars>>

\* return mapping
LoadReturn ==
  /\ lpc = "rows"
  /\ reader > Len(csv)
  /\ lpc' = "returned"
  /\ UNCHANGED <<csv, call, reader, mapping, key_idx, val_idxs>>
  /\ UNCHANGED <<normVars, transVars, mainVars>>

NextLoad == LoadRaise \/ LoadHeader \/ LoadNextRow \/ LoadReturn

SpecLoad == InitLoad /\ [][NextLoad]_vars

\* --------------------------------------------- SpecTranslate (translate)
InitTranslate ==
  /\ fin \in FilesUpTo(MaxLines)
  /\ \E src \in SrcCsvs :
       eng_map = load_mapping(src, KeyCol, <<SingularCol, NameCol>>, TRUE)
  /\ \E tgt \in TgtCsvs :
       id_map = load_mapping(tgt, KeyCol, <<NameCol>>, FALSE)
  /\ pos = 1
  /\ msgid = TranslateStart.msgid
  /\ total = TranslateStart.total
  /\ replaced = TranslateStart.replaced
  /\ missing = TranslateStart.missing
  /\ written = TranslateStart.out
  /\ tpc = "loop"
  /\ NormIdle /\ LoadIdle /\ MainIdle

\* the loop state held in the variables
LoopState ==
  [msgid |-> msgid, total |-> total, replaced |-> replaced,
   missing |-> missing, out |-> written]

\* one iteration of "for line in fin"
TranslateStep ==
  /\ tpc = "loop"
  /\ pos <= Len(fin)
  /\ LET st == TranslateLine(LoopState, fin[pos], eng_map, id_map)
     IN /\ msgid' = st.msgid
        /\ total' = st.total
        /\ replaced' = st.replaced
        /\ missing' = st.missing
        /\ written' = st.out
  /\ pos' = pos + 1
  /\ UNCHANGED <<fin, eng_map, id_map, tpc>>
  /\ UNCHANGED <<normVars, loadVars, mainVars>>

\* the end of the file: the with block closes both files
TranslateEnd ==
  /\ tpc = "loop"
  /\ pos > Len(fin)
  /\ tpc' = "done"
  /\ UNCHANGED <<fin, pos, msgid, total, replaced, missing, written,
                 eng_map, id_map>>
  /\ UNCHANGED <<normVars, loadVars, mainVars>>

NextTranslate == TranslateStep \/ TranslateEnd

SpecTranslate == InitTranslate /\ [][NextTranslate]_vars

\* ------------------------------------------------------------ SpecMain (main)
\* choices of --src and --tgt
Langs == { <<"e","n">>, <<"j","p">>, <<"d","e">>, <<"f","r">> }

\* str.upper() on one character
UpperChar(c) ==
  IF \E i \in 1..26 : LowerChars[i] = c
  THEN UpperChars[CHOOSE i \in 1..26 : LowerChars[i] = c]
  ELSE c

\* str.upper()
Upper(s) == [i \in 1..Len(s) |-> UpperChar(s[i])]

RECURSIVE ReplaceFrom(_, _, _, _)
\* str.replace(old, new) from position i on: every occurrence, left to right
ReplaceFrom(s, old, new, i) ==
  IF i > Len(s) THEN <<>>
  ELSE IF i + Len(old) - 1 <= Len(s) /\ Slice(s, i, i + Len(old) - 1) = old
       THEN new \o ReplaceFrom(s, old, new, i + Len(old))
       ELSE <<s[i]>> \o ReplaceFrom(s, old, new, i + 1)

\* s.replace(old, new), old not empty
Replace(s, old, new) == ReplaceFrom(s, old, new, 1)

\* default of --csv-dir
CsvDir == <<"c","s","v">>

\* os.path.join(args.csv_dir, f'Item_{lang.upper()}.csv')
CsvPath(lang) ==
  CsvDir \o <<"/">> \o <<"I","t","e","m","_">> \o Upper(lang)
         \o <<".","c","s","v">>

\* the file logging.FileHandler opens for writing
LogPath == <<"r","e","p","l","a","c","e","r",".","l","o","g">>

DotPo == <<".","p","o">>

\* args.po_in.replace('.po', f'.{args.tgt}.po')
DefaultOutPo(po_in, tgt) == Replace(po_in, DotPo, <<".">> \o tgt \o DotPo)

\* the test that never finds the two languages equal
SameLanguageIgnored(a) == FALSE

\* args.src == args.tgt
SameLanguage(a) == a.src = a.tgt

\* the command lines: argc is len(sys.argv), 2 standing for every length
\* above 1, which is all the code tests; parsed is what parse_args
\* does with it: "help" (-h), "error" (argparse calls parser.error) or "ok",
\* and then src, tgt, po_in and po_out are the fields of args
PoInPath == <<"a",".","p","o">>
PoOutPath == <<"o",".","p","o">>
DefaultSrc == <<"e","n">>
DefaultTgt == <<"j","p">>

Argvs ==
  { [argc |-> 1, parsed |-> "none", src |-> DefaultSrc, tgt |-> DefaultTgt,
     po_in |-> None, po_out |-> None] }
  \cup { [argc |-> 2, parsed |-> p, src |-> DefaultSrc, tgt |-> DefaultTgt,
          po_in |-> None, po_out |-> None] : p \in {"help", "error"} }
  \cup { [argc |-> 2, parsed |-> "ok", src |-> s, tgt |-> t,
          po_in |-> f[1], po_out |-> f[2]] :
            s \in Langs, t \in Langs,
            f \in { <<None, None>>, <<PoInPath, None>>,
                    <<PoInPath, PoOutPath>> } }

\* a spreadsheet that loads in both modes, one without Name column
GoodCsv ==
  GoodHeader \o << <<<<"1">>, <<"A",".">>, <<"T">>>>,
                   <<<<"2">>, <<".">>, <<"U">>>> >>
BadCsv == NoNameHeader \o << <<<<"1">>, <<"A",".">>, <<"T">>>> >>

\* the translation file of SpecMain
PoFile == <<LineMsgidA, LineSentinel, LineComment>>

\* the disks: every spreadsheet absent, malformed or good; the input
\* file absent or present
Disks ==
  { [p \in {CsvPath(l) : l \in Langs} \cup {PoInPath} |->
       IF p = PoInPath THEN po ELSE c[p]] :
      c \in [{CsvPath(l) : l \in Langs} -> {None, BadCsv, GoodCsv}],
      po \in {None, PoFile} }

\* open(path) for reading fails
OpenFails(disk, path) ==
  IF path \notin DOMAIN disk THEN TRUE ELSE disk[path] = None

InitMain ==
  /\ argv \in Argvs
  /\ fs \in Disks
  /\ pc = "start"
  /\ en_csv = None /\ tgt_csv = None /\ out_po = None
  /\ opened = {}
  /\ exit_status = -1
  /\ uncaught = FALSE
  /\ NormIdle /\ LoadIdle /\ TransIdle

\* sys.exit(status)
Exit(status) ==
  /\ pc' = "exited"
  /\ exit_status' = status
  /\ uncaught' = FALSE

\* if len(sys.argv) == 1: parser.print_help(); sys.exit(0)
MainNoArgs ==
  /\ pc = "start"
  /\ argv.argc = 1
  /\ Exit(0)
  /\ UNCHANGED <<argv, fs, en_csv, tgt_csv, out_po, opened>>
  /\ UNCHANGED <<normVars, loadVars, transVars>>

\* parse_args meets -h: the help action prints the help and exits with 0
MainHelp ==
  /\ pc = "start"
  /\ argv.argc > 1
  /\ argv.parsed = "help"
  /\ Exit(0)
  /\ UNCHANGED <<argv, fs, en_csv, tgt_csv, out_po, opened>>
  /\ UNCHANGED <<normVars, loadVars, transVars>>

\* parse_args rejects the command line: custom_error, sys.exit(2)
MainParseError ==
  /\ pc = "start"
  /\ argv.argc > 1
  /\ argv.parsed = "error"
  /\ Exit(2)
  /\ UNCHANGED <<argv, fs, en_csv, tgt_csv, out_po, opened>>
  /\ UNCHANGED <<normVars, loadVars, transVars>>

\* if args.src == args.tgt: parser.error(...)
MainSameLanguage ==
  /\ pc = "start"
  /\ argv.argc > 1
  /\ argv.parsed = "ok"
  /\ SameLanguage(argv)
  /\ Exit(2)
  /\ UNCHANGED <<argv, fs, en_csv, tgt_csv, out_po, opened>>
  /\ UNCHANGED <<normVars, loadVars, transVars>>

\* logging.basicConfig(...) with a FileHandler on replacer.log, then the
\* two os.path.join calls
MainLogging ==
  /\ pc = "start"
  /\ argv.argc > 1
  /\ argv.parsed = "ok"
  /\ ~SameLanguage(argv)
  /\ opened' = opened \cup {LogPath}
  /\ en_csv' = CsvPath(argv.src)
  /\ tgt_csv' = CsvPath(argv.tgt)
  /\ pc' = "paths"
  /\ UNCHANGED <<argv, fs, out_po, exit_status, uncaught>>
  /\ UNCHANGED <<normVars, loadVars, transVars>>

\* out_po = args.po_out or args.po_in.replace(...) with po_in None:
\* AttributeError outside every try block, the interpreter prints the
\* traceback and ends with status 1
MainOutPoRaises ==
  /\ pc = "paths"
  /\ argv.po_out = None
  /\ argv.po_in = None
  /\ pc' = "exited"
  /\ exit_status' = 1
  /\ uncaught' = TRUE
  /\ UNCHANGED <<argv, fs, en_csv, tgt_csv, out_po, opened>>
  /\ UNCHANGED <<normVars, loadVars, transVars>>

\* out_po = args.po_out or args.po_in.replace('.po', f'.{args.tgt}.po')
MainOutPo ==
  /\ pc = "paths"
  /\ ~(argv.po_out = None /\ argv.po_in = None)
  /\ out_po' = IF argv.po_out # None THEN argv.po_out
               ELSE DefaultOutPo(argv.po_in, argv.tgt)
  /\ pc' = "load"
  /\ UNCHANGED <<argv, fs, en_csv, tgt_csv, opened, exit_status, uncaught>>
  /\ UNCHANGED <<normVars, loadVars, transVars>>

\* the first load_mapping raises: except Exception, sys.exit(1)
MainLoadSrcFails ==
  /\ pc = "load"
  /\ HeaderRaises(fs[en_csv], KeyCol, <<SingularCol, NameCol>>)
  /\ opened' = opened \cup {en_csv}
  /\ Exit(1)
  /\ UNCHANGED <<argv, fs, en_csv, tgt_csv, out_po>>
  /\ UNCHANGED <<normVars, loadVars, transVars>>

\* the second load_mapping raises: except Exception, sys.exit(1)
MainLoadTgtFails ==
  /\ pc = "load"
  /\ ~HeaderRaises(fs[en_csv], KeyCol, <<SingularCol, NameCol>>)
  /\ HeaderRaises(fs[tgt_csv], KeyCol, <<NameCol>>)
  /\ opened' = opened \cup {en_csv, tgt_csv}
  /\ Exit(1)
  /\ UNCHANGED <<argv, fs, en_csv, tgt_csv, out_po>>
  /\ UNCHANGED <<normVars, loadVars, transVars>>

\* eng_map = load_mapping(en_csv, 'key', ['Singular', 'Name'], True)
\* id_map = load_mapping(tgt_csv, 'key', ['Name'], False)
MainLoad ==
  /\ pc = "load"
  /\ ~HeaderRaises(fs[en_csv], KeyCol, <<SingularCol, NameCol>>)
  /\ ~HeaderRaises(fs[tgt_csv], KeyCol, <<NameCol>>)
  /\ eng_map' = load_mapping(fs[en_csv], KeyCol, <<SingularCol, NameCol>>, TRUE)
  /\ id_map' = load_mapping(fs[tgt_csv], KeyCol, <<NameCol>>, FALSE)
  /\ opened' = opened \cup {en_csv, tgt_csv}
  /\ pc' = "translate"
  /\ UNCHANGED <<argv, fs, en_csv, tgt_csv, out_po, exit_status, uncaught>>
  /\ UNCHANGED <<fin, pos, msgid, total, replaced, missing, written, tpc>>
  /\ UNCHANGED <<normVars, loadVars>>

\* translate raises on open(po_in): except Exception, sys.exit(1)
MainTranslateFails ==
  /\ pc = "translate"
  /\ OpenFails(fs, argv.po_in)
  /\ opened' = opened \cup {argv.po_in}
  /\ Exit(1)
  /\ UNCHANGED <<argv, fs, en_csv, tgt_csv, out_po>>
  /\ UNCHANGED <<normVars, loadVars, transVars>>

\* translate(args.po_in, out_po, eng_map, id_map, ...) runs to its end,
\* main returns and the process ends with status 0
MainTranslate ==
  /\ pc = "translate"
  /\ ~OpenFails(fs, argv.po_in)
  /\ LET st == TranslateFrom(TranslateStart, fs[argv.po_in], 1, eng_map, id_map)
     IN /\ fin' = fs[argv.po_in]
        /\ pos' = Len(fs[argv.po_in]) + 1
        /\ msgid' = st.msgid
        /\ total' = st.total
        /\ replaced' = st.replaced
        /\ missing' = st.missing
        /\ written' = st.out
        /\ fs' = Put(fs, out_po, SplitLines(Concat(st.out)))
  /\ tpc' = "done"
  /\ opened' = opened \cup {argv.po_in, out_po}
  /\ Exit(0)
  /\ UNCHANGED <<argv, en_csv, tgt_csv, out_po, eng_map, id_map>>
  /\ UNCHANGED <<normVars, loadVars>>

NextMain ==
  \/ MainNoArgs \/ MainHelp \/ MainParseError \/ MainSameLanguage
  \/ MainLogging \/ MainOutPoRaises \/ MainOutPo
  \/ MainLoadSrcFails \/ MainLoadTgtFails \/ MainLoad
  \/ MainTranslateFails \/ MainTranslate

SpecMain == InitMain /\ [][NextMain]_vars

\* ------------------------------------------------- vocabulary of the claims
\* an empty-target line: 'msgstr ""' once stripped
IsEmptyTarget(line) == Strip(line) = Sentinel

EmptyTargets(file) == {i \in 1..Len(file) : IsEmptyTarget(file[i])}

\* the msgid lines that govern line i of a file: a msgid line with a
\* non-empty text before it, with no other msgid line and no empty-target
\* line in between (at most one line, the nearest)
Governors(file, i) ==
  {j \in 1..(i-1) :
     /\ IsMsgidLine(file[j])
     /\ Truthy(MatchMsgid(file[j]))
     /\ \A k \in (j+1)..(i-1) :
          ~IsMsgidLine(file[k]) /\ ~IsEmptyTarget(file[k])}

\* line i is an empty-target line governed by a msgid line
Governed(file, i) == IsEmptyTarget(file[i]) /\ Governors(file, i) # {}

\* the source text of a governed line
SourceText(file, i) == MatchMsgid(file[CHOOSE j \in Governors(file, i) : TRUE])

\* line i directly follows a well-formed msgid line
FollowsMsgid(file, i) ==
  IF i > 1 THEN IsMsgidLine(file[i-1]) /\ MatchMsgid(file[i-1]) # None
  ELSE FALSE

\* both lookups succeed for the source text m
Resolvable(m) ==
  IF normalize(m) \in DOMAIN eng_map
  THEN eng_map[normalize(m)] \in DOMAIN id_map
  ELSE FALSE

\* the target text the two indexes give for m
TargetOf(m) == id_map[eng_map[normalize(m)]]

InMissing(m) == \E k \in 1..Len(missing) : missing[k] = m

\* ------------------------------------------------------------------ claims
\* C1: on every candidate line (a line that strips to 'msgstr ""', read
\* while a non-empty source message is pending) translate writes
\* 'msgstr "<t>"' and adds one to replaced when both lookups succeed with a
\* non-empty t; otherwise it writes the line itself and leaves replaced.
CandidateSubstitution ==
  [][ ( /\ tpc = "loop" /\ pos <= Len(fin) /\ pos' = pos + 1
        /\ Truthy(msgid) /\ Strip(fin[pos]) = Sentinel )
      => IF (IF Resolvable(msgid) THEN TargetOf(msgid) # <<>> ELSE FALSE)
         THEN /\ written' = Append(written,
                              MsgstrOpen \o TargetOf(msgid) \o <<QT, NL>>)
              /\ replaced' = replaced + 1
         ELSE /\ written' = Append(written, fin[pos])
              /\ replaced' = replaced ]_vars

\* C1 witness: a run has replaced one candidate line by its target text
\* and left another, unresolved one as it was.
CandidateSubstitutionWitness ==
  /\ tpc = "done"
  /\ replaced = 1
  /\ Len(missing) = 1
  /\ \E i \in 1..Len(fin) :
       /\ Governed(fin, i)
       /\ Resolvable(SourceText(fin, i))
       /\ written[i] = MsgstrOpen \o TargetOf(SourceText(fin, i)) \o <<QT, NL>>

\* C2 as stated: when every empty msgstr that follows a msgid line has
\* its entries in both indexes, every empty-target line is replaced and
\* replaced counts them all, the ones after 'msgid ""' and the ones without
\* a msgid line included.
RoundTripAsClaimed ==
  ( /\ tpc = "done"
    /\ \A i \in EmptyTargets(fin) :
         FollowsMsgid(fin, i) => Resolvable(MatchMsgid(fin[i-1])) )
  => /\ replaced = Cardinality(EmptyTargets(fin))
     /\ \A i \in EmptyTargets(fin) : written[i] # fin[i]

\* C2 amended: when every empty-target line is governed by a msgid line
\* with a non-empty text that has its entries in both indexes, every
\* empty-target line is replaced by its target text and replaced counts
\* them all.
RoundTripGoverned ==
  ( /\ tpc = "done"
    /\ \A i \in EmptyTargets(fin) :
         Governed(fin, i) /\ Resolvable(SourceText(fin, i)) )
  => /\ replaced = Cardinality(EmptyTargets(fin))
     /\ \A i \in EmptyTargets(fin) :
          written[i] = MsgstrOpen \o TargetOf(SourceText(fin, i)) \o <<QT, NL>>

\* C2 witness: a fully resolvable file with a padded empty-target line has
\* been translated.
RoundTripGovernedWitness ==
  /\ tpc = "done"
  /\ \E i \in EmptyTargets(fin) : fin[i] # Sentinel \o <<NL>>
  /\ \A i \in EmptyTargets(fin) :
       Governed(fin, i) /\ Resolvable(SourceText(fin, i))
  /\ replaced >= 1

\* C3 as stated: every empty-target line after a msgid line whose
\* normalized text is not in the source index is written unchanged and its
\* source text is in the missing list, the empty text of 'msgid ""'
\* included.
NonDestructiveAsClaimed ==
  tpc = "done" =>
    \A i \in EmptyTargets(fin) :
      ( /\ FollowsMsgid(fin, i)
        /\ normalize(MatchMsgid(fin[i-1])) \notin DOMAIN eng_map )
      => written[i] = fin[i] /\ InMissing(MatchMsgid(fin[i-1]))

\* C3 amended: every empty-target line governed by a non-empty source
\* text whose normalized form is not in the source index is written
\* unchanged and its source text is in the missing list; an empty-target
\* line that no non-empty source text governs is written unchanged and
\* nothing is recorded for it (the missing list never holds an empty text).
NonDestructiveGoverned ==
  tpc = "done" =>
    /\ \A i \in EmptyTargets(fin) :
         IF Governed(fin, i)
         THEN normalize(SourceText(fin, i)) \notin DOMAIN eng_map
              => written[i] = fin[i] /\ InMissing(SourceText(fin, i))
         ELSE written[i] = fin[i]
    /\ \A k \in 1..Len(missing) : Truthy(missing[k])
    /\ Len(missing) <= Cardinality({i \in EmptyTargets(fin) : Governed(fin, i)})

\* C3 witness: a governed empty-target line without a source index entry
\* has been written unchanged and recorded.
NonDestructiveGovernedWitness ==
  /\ tpc = "done"
  /\ \E i \in EmptyTargets(fin) :
       /\ Governed(fin, i)
       /\ normalize(SourceText(fin, i)) \notin DOMAIN eng_map
       /\ written[i] = fin[i]
       /\ InMissing(SourceText(fin, i))

\* C4: the output has as many lines as the input, in the same order, and
\* every input line that is not an empty-target line is in the output
\* unchanged at the same position.
PassThrough ==
  tpc = "done" =>
    LET outl == SplitLines(Concat(written))
    IN /\ Len(outl) = Len(fin)
       /\ \A i \in 1..Len(fin) :
            ~IsEmptyTarget(fin[i]) => (i <= Len(outl) /\ outl[i] = fin[i])

CounterInvariant ==
  /\ [](total = replaced + Len(missing))
  /\ [][ (tpc = "loop" /\ pos <= Len(fin) /\ pos' = pos + 1)
         => IF Truthy(msgid) /\ IsEmptyTarget(fin[pos])
            THEN /\ total' = total + 1
                 /\ msgid' = None
                 /\ IF replaced' = replaced
                    THEN missing' = Append(missing, msgid)
                    ELSE replaced' = replaced + 1 /\ missing' = missing
            ELSE /\ total' = total
                 /\ replaced' = replaced
                 /\ missing' = missing
                 /\ IsEmptyTarget(fin[pos]) => written' = Append(written, fin[pos])
     ]_vars

\* C10 witness: a msgid line was followed by two empty msgstr lines and
\* only the first was counted.
CounterInvariantWitness ==
  /\ tpc = "done"
  /\ total = 1
  /\ \E i \in 2..(Len(fin) - 1) :
       /\ IsMsgidLine(fin[i-1])
       /\ Governed(fin, i)
       /\ IsEmptyTarget(fin[i+1])
       /\ written[i+1] = fin[i+1]

\* ----------------------------------------------------- claims on the loader
\* the row has the key field
HasKey(row) == Len(row) >= key_idx
\* item_id of a row
IdOf(row) == StripQuotes(row[key_idx])
\* the value of a row in identifier-key mode, None without the field
ValueOf(row) ==
  IF Len(row) >= val_idxs[1] THEN StripQuotes(row[val_idxs[1]]) ELSE None
\* the row is indexed: all fields present, key and value not empty
Indexed(row) ==
  IF Len(row) >= Max({key_idx, val_idxs[1]})
  THEN IdOf(row) # <<>> /\ ValueOf(row) # <<>>
  ELSE FALSE
\* rows i and j carry the same identifier
SameId(i, j) ==
  IF HasKey(csv[i]) /\ HasKey(csv[j])
  THEN IdOf(csv[i]) # <<>> /\ IdOf(csv[i]) = IdOf(csv[j])
  ELSE FALSE

\* C6 as stated: of two data rows with the same identifier the mapping
\* holds the value of the later one.
LastRowWinsAsClaimed ==
  (lpc = "returned" /\ ~call.nk) =>
    \A i \in 4..Len(csv), j \in 4..Len(csv) :
      ( /\ i < j
        /\ SameId(i, j)
        /\ \A k \in (j+1)..Len(csv) : ~SameId(j, k) )
      => IF IdOf(csv[j]) \in DOMAIN mapping
         THEN mapping[IdOf(csv[j])] = ValueOf(csv[j])
         ELSE FALSE

\* C6 amended: of the data rows with the same identifier the mapping holds
\* the value of the last one that is indexed (all referenced fields
\* present, value not empty after stripping the quotes); an identifier
\* without such a row is not in the mapping.
LastIndexedRowWins ==
  (lpc = "returned" /\ ~call.nk) =>
    /\ \A j \in 4..Len(csv) :
         ( /\ Indexed(csv[j])
           /\ \A k \in (j+1)..Len(csv) : ~(Indexed(csv[k]) /\ SameId(j, k)) )
         => IF IdOf(csv[j]) \in DOMAIN mapping
            THEN mapping[IdOf(csv[j])] = ValueOf(csv[j])
            ELSE FALSE
    /\ \A id \in DOMAIN mapping :
         \E j \in 4..Len(csv) : Indexed(csv[j]) /\ IdOf(csv[j]) = id

\* C6 witness: two indexed rows with one identifier and different values
\* have been loaded.
LastIndexedRowWinsWitness ==
  /\ lpc = "returned" /\ ~call.nk
  /\ \E i \in 4..Len(csv), j \in 4..Len(csv) :
       /\ i < j
       /\ Indexed(csv[i]) /\ Indexed(csv[j]) /\ SameId(i, j)
       /\ ValueOf(csv[i]) # ValueOf(csv[j])
       /\ mapping[IdOf(csv[j])] = ValueOf(csv[j])

\* ------------------------------------------------------- claim on normalize
\* C7: normalize is idempotent: normalizing an already normalized text
\* gives the same text back.
NormalizeIdempotent == twice # None => twice = once

\* C7 witness: a text holding a tag, and punctuation or an upper-case
\* letter, has been normalized twice.
NormalizeIdempotentWitness ==
  /\ twice # None
  /\ once # text
  /\ \E i \in 1..Len(text) : TagEnd(text, i) # 0
  /\ \E i \in 1..Len(text) : text[i] \in Punctuation \cup {"A"}

\* ------------------------------------------------------------ claims on main
\* C8: a run whose source and target languages are the same opens no file
\* at any point and ends with status 2.
SameLanguageRejected ==
  (argv.argc > 1 /\ argv.parsed = "ok" /\ argv.src = argv.tgt) =>
    /\ opened = {}
    /\ fs \in Disks
    /\ pc \in {"start", "exited"}
    /\ pc = "exited" => (exit_status = 2 /\ ~uncaught)

\* C8 witness: such a run, with an input file on the command line, has
\* ended.
SameLanguageRejectedWitness ==
  /\ pc = "exited"
  /\ argv.parsed = "ok"
  /\ argv.src = argv.tgt
  /\ argv.po_in # None
  /\ exit_status = 2

\* C9: every run ends with status 0, 1 or 2 and never by an uncaught
\* exception: 0 on success and on help, 2 on every argument error, a
\* command line with options and no input file included, 1 when loading
\* or translating fails.
ExitStatusContract ==
  pc = "exited" =>
    /\ ~uncaught
    /\ exit_status \in {0, 1, 2}
    /\ (argv.argc = 1 \/ argv.parsed = "help") => exit_status = 0
    /\ ( /\ argv.argc > 1
         /\ IF argv.parsed = "error" THEN TRUE
            ELSE IF argv.parsed = "ok"
                 THEN argv.src = argv.tgt \/ argv.po_in = None
                 ELSE FALSE )
       => exit_status = 2

====
